---- MODULE Spec2Model ----
(***************************************************************************)
(* Model of the Ryobi garage-door component: the HTTP helper send_http,    *)
(* the account client RyobiApi (login) and the websocket session           *)
(* controller RyobiWssCtrl (open_wss_thread, connect_wss, the socket       *)
(* callbacks and publish_wss), as written in ryobiapi.py.                  *)
(***************************************************************************)
EXTENDS Integers, Sequences, FiniteSets, Bags, TLC

\* ------------------------------------------------------------------------
\* Program constants (ryobiapi.py lines 11-29, 256, 306)
\* ------------------------------------------------------------------------
SOCK_CONNECTED == "Open"
SOCK_CLOSE == "Close"
SOCK_ERROR == "Error"
N_RETRY == 6
CONNECT_POLLS == 15
DEAD_LINK_SENDS == 5

\* Python's None
None == "None"

\* ------------------------------------------------------------------------
\* HTTP helper: RyobiApi.send_http (lines 122-164)
\* ------------------------------------------------------------------------

\* A JSON object is a function from its keys to its values.
HasKey(d, k) == k \in DOMAIN d

\* The body of an answer as it is on the wire: resp.json() yields `data` when
\* the text is JSON and raises otherwise.
JsonBody(d) == [valid |-> TRUE, data |-> d]
NotJson == [valid |-> FALSE, data |-> <<>>]

\* The dictionary returned on HTTP 401 (lines 143-146).
Http401Result ==
    ("msg" :> "error") @@
    ("details" :> "Invalid login credentials HTTP 401 Unothorized. Skipped retry")

\* The dictionary returned when every attempt failed (line 164).
HttpFailedResult ==
    ("msg" :> "error") @@ ("details" :> "Failed after 6 retry")

\* What one attempt can meet: an answer with a status code (and a body), or
\* an httpx.RequestError (timeout, connection failure) raised by client.send.
HttpAnswer(status, body) == [kind |-> "answer", status |-> status, body |-> body]
HttpNetError(what) == [kind |-> "request_error", status |-> 0, body |-> what]

\* The outcome of a call: a returned value or a propagated exception, with
\* the number of requests that were sent.
Returned(v, n) == [how |-> "return", value |-> v, attempts |-> n]
Raised(e, n) == [how |-> "raise", value |-> e, attempts |-> n]

\* HttpAttempt with the 401 branch lost: a 401 is retried like a 500.
HttpAttemptRetry401(r, attempt) ==
    IF r.kind = "answer" /\ r.status = 200
    THEN IF r.body.valid
         THEN Returned(r.body.data, attempt + 1)
         ELSE Raised("JSONDecodeError", attempt + 1)
    ELSE [how |-> "loop", value |-> <<>>, attempts |-> attempt + 1]

\* One pass of the body of the for loop (lines 131-161) on the answer r of
\* attempt number `attempt` (0-based): "loop" means the loop goes on.
HttpAttempt(r, attempt) ==
    IF r.kind = "request_error"
    THEN [how |-> "loop", value |-> <<>>, attempts |-> attempt + 1]
    ELSE IF r.status = 200
         THEN IF r.body.valid
              THEN Returned(r.body.data, attempt + 1)
              ELSE Raised("JSONDecodeError", attempt + 1)
         ELSE IF r.status = 401
              THEN Returned(Http401Result, attempt + 1)
              ELSE [how |-> "loop", value |-> <<>>, attempts |-> attempt + 1]

\* SendHttpFrom giving up one attempt early.
RECURSIVE SendHttpFromShort(_, _)
SendHttpFromShort(script, attempt) ==
    IF attempt >= N_RETRY - 1
    THEN Returned(HttpFailedResult, attempt)
    ELSE LET o == HttpAttempt(script[attempt + 1], attempt)
         IN  IF o.how = "loop" THEN SendHttpFromShort(script, attempt + 1) ELSE o

RECURSIVE SendHttpFrom(_, _)
SendHttpFrom(script, attempt) ==
    IF attempt >= N_RETRY
    THEN Returned(HttpFailedResult, attempt)
    ELSE LET o == HttpAttempt(script[attempt + 1], attempt)
         IN  IF o.how = "loop" THEN SendHttpFrom(script, attempt + 1) ELSE o

\* send_http against a server that answers the k-th request with script[k].
SendHttp(script) == SendHttpFrom(script, 0)

\* ------------------------------------------------------------------------
\* Account client: RyobiApi.login (lines 48-81)
\* ------------------------------------------------------------------------

\* login() on the outcome o of its send_http call, with the credentials held
\* before the call: what it returns or raises and the credentials afterwards.
LoginResult(how, ret, uid, key) ==
    [how |-> how, ret |-> ret, user_id |-> uid, api_key |-> key]

Login(o, uid, key) ==
    IF o.how = "raise"
    THEN LoginResult("raise", FALSE, uid, key)
    ELSE LET resp == o.value IN
         IF ~HasKey(resp, "result")
         THEN LoginResult("raise", FALSE, uid, key)          \* KeyError, line 63
         ELSE LET result == resp["result"] IN
              IF HasKey(result, "_id")
              THEN LET uid2 == result["_id"] IN               \* line 64
                   IF ~HasKey(result, "auth")
                   THEN LoginResult("raise", FALSE, uid2, key)   \* KeyError, line 66
                   ELSE IF HasKey(result["auth"], "apikey")      \* line 66
                        THEN IF HasKey(result["auth"], "apiKey")
                             THEN LoginResult("return", TRUE, uid2,
                                              result["auth"]["apiKey"])
                             ELSE LoginResult("raise", FALSE, uid2, key)
                        ELSE LoginResult("return", FALSE, uid2, key)  \* line 72
              ELSE LoginResult("return", FALSE, uid, key)        \* line 81

\* ------------------------------------------------------------------------
\* Account client: RyobiApi.get_devices (lines 83-120)
\* ------------------------------------------------------------------------
USERNAME == "user"
PASSWORD == "pass"

\* Python's truth value of a parsed JSON value: an empty object or list is
\* falsy (line 98).
Truthy(resp) == DOMAIN resp # {}

\* Lines 100-111: the descriptor built for one item of the result list.
DeviceDescriptor(item, key, uid) ==
    [username |-> USERNAME, password |-> PASSWORD,
     api_key |-> key, u_id |-> uid,
     type_ids |-> item["deviceTypeIds"],
     d_id |-> item["varName"],
     name |-> item["metaData"]["name"],
     version |-> item["metaData"]["version"],
     description |-> item["metaData"]["description"],
     last_seen |-> item["metaData"]["sys"]["lastSeen"]]

\* The descriptors of the items of one result list, in order.
Descriptors(items, key, uid) ==
    [n \in 1 .. Len(items) |-> DeviceDescriptor(items[n], key, uid)]

DevicesResult(how, list, devs) == [how |-> how, list |-> list, devices |-> devs]

\* get_devices() on the outcome o of its send_http call, with self.devices,
\* self.api_key and self.user_id as they are at the call: what it returns or
\* raises and self.devices afterwards.
GetDevices(o, devs, key, uid) ==
    IF o.how = "raise"
    THEN DevicesResult("raise", << >>, devs)
    ELSE LET resp == o.value IN
         IF Truthy(resp)                                        \* line 98
         THEN IF ~HasKey(resp, "result")
              THEN DevicesResult("raise", << >>, devs)          \* KeyError, line 99
              ELSE LET all == devs \o Descriptors(resp["result"], key, uid)
                   IN  DevicesResult("return", all, all)        \* lines 112, 117
         ELSE DevicesResult("return", << >>, devs)              \* line 120

\* ------------------------------------------------------------------------
\* State
\* ------------------------------------------------------------------------

\* Bounds of the model
MaxLeaked == 2          \* replaced sockets whose thread still runs, at most
MaxLeakedRecover == 7   \* the same, in the recovery scenario

\* The callers (coroutines) that may use the controller.
Tasks == {1, 2}

\* The life of a WebSocketApp and of the thread running its run_forever:
\*   created     constructed, no thread yet
\*   connecting  thread running, handshake under way
\*   open        on_open delivered
\*   closing     on_error delivered or close() called by the controller:
\*               the teardown (on_close) is still to come
\*   dead        on_close delivered, thread ended
LiveStatus == {"connecting", "open", "closing"}

VARIABLES
    socket_state,   \* self.socket_state
    sent_counter,   \* self.sent_counter
    api_key,        \* self.api_key
    user_id,        \* self.user_id
    ws,             \* self.ws / self.wst: the controller's socket and its thread
    leaked,         \* bag of the sockets self.ws no longer names whose thread
                    \* still runs
    task,           \* per caller: the call in progress and its locals
    unacked,        \* history: sends accepted since the last inbound message
                    \* or dead-link reset
    http_script,    \* the server's answers to the requests of one send_http
    http_out,       \* what that send_http call gave
    devices,        \* self.devices
    api_out         \* history: the last login or get_devices call on the
                    \* account client, what it met and what it gave

vars == << socket_state, sent_counter, api_key, user_id, ws, leaked, task,
           unacked, http_script, http_out, devices, api_out >>

NoSocket == [status |-> "none", frames |-> << >>]
NoLeak == EmptyBag
LeakedCount == BagCardinality(leaked)
LeakedSockets == BagToSet(leaked)

\* Threads started by the controller that are still running.
LiveThreads == LeakedCount + (IF ws.status \in LiveStatus THEN 1 ELSE 0)

IdleTask ==
    [op |-> "none", pc |-> "idle", attempt |-> 0, i |-> 0, ret |-> "none",
     why |-> "none", conn0 |-> FALSE, cnt0 |-> 0, msg |-> FALSE]

NoCall == [how |-> "none", value |-> << >>, attempts |-> 0]

\* No call on the account client yet.
NoApiCall ==
    [op |-> "none", resp |-> NoCall, how |-> "none", ret |-> FALSE,
     list |-> << >>, uid0 |-> None, key0 |-> None, devs0 |-> << >>]

\* A caller runs on the event loop: it is suspended only between calls, in
\* the HTTP request of login and in the sleep of the connect poll.
Suspended(t) ==
    \/ task[t].pc \in {"absent", "idle", "done", "login"}
    \/ task[t].pc = "poll" /\ task[t].i > 0
CanRun(t) == \A u \in Tasks \ {t} : Suspended(u)

InCall(t) == task[t].pc \notin {"absent", "idle", "done"}

\* ------------------------------------------------------------------------
\* Server answers used when the controller has to log in
\* ------------------------------------------------------------------------
LoginBody(uid, auth) == JsonBody("result" :> (("_id" :> uid) @@ ("auth" :> auth)))

LoginAnswers ==
    { HttpAnswer(200, LoginBody("u1", "apiKey" :> "k1")),
      HttpAnswer(200, LoginBody("u1", ("apiKey" :> "k1") @@ ("apikey" :> "k1"))),
      HttpAnswer(200, JsonBody("result" :> << >>)),
      HttpAnswer(401, NotJson),
      HttpAnswer(500, NotJson) }

ConstScript(r) == [k \in 1 .. N_RETRY |-> r]

\* ------------------------------------------------------------------------
\* Caller side: connect_wss and open_wss_thread (lines 187-261)
\* ------------------------------------------------------------------------
SetTask(t, r) == task' = [task EXCEPT ![t] = r]

\* connect_wss returns r ("true", "false") or raises ("raise"): to its caller
\* when called directly, to the retry loop of publish_wss (line 332, which
\* drops the value and goes to the next attempt) when called from there.
ConnectReturn(tk, r, why) ==
    IF tk.op = "publish" /\ r # "raise"
    THEN [tk EXCEPT !.pc = "loop", !.attempt = tk.attempt + 1, !.i = 0]
    ELSE [tk EXCEPT !.pc = "done", !.ret = r, !.attempt = 0, !.i = 0,
                    !.why = why]

\* ConnectWss without the check of line 246.
ConnectWssNoCheck(t) ==
    /\ CanRun(t)
    /\ task[t].pc \in {"idle", "done", "connect"}
    /\ LET tk == IF task[t].pc = "connect"
                 THEN task[t]
                 ELSE [IdleTask EXCEPT !.op = "connect"]
       IN  SetTask(t, [tk EXCEPT !.pc = "creds"])
    /\ UNCHANGED << socket_state, sent_counter, api_key, user_id, ws, leaked,
                    unacked, http_script, http_out, devices, api_out >>

\* Lines 244-249: the check on entry. A direct call starts here.
ConnectWss(t) ==
    /\ CanRun(t)
    /\ task[t].pc \in {"idle", "done", "connect"}
    /\ LET tk == IF task[t].pc = "connect"
                 THEN task[t]
                 ELSE [IdleTask EXCEPT !.op = "connect"]
       IN  IF socket_state = SOCK_CONNECTED
           THEN SetTask(t, ConnectReturn(tk, "true", "already"))
           ELSE SetTask(t, [tk EXCEPT !.pc = "creds"])
    /\ UNCHANGED << socket_state, sent_counter, api_key, user_id, ws, leaked,
                    unacked, http_script, http_out, devices, api_out >>

\* check_credentials, lines 187-199, up to the await of login.
CheckCredentials(t) ==
    /\ CanRun(t)
    /\ task[t].pc = "creds"
    /\ SetTask(t, [task[t] EXCEPT !.pc = IF api_key = None THEN "login"
                                                         ELSE "create"])
    /\ UNCHANGED << socket_state, sent_counter, api_key, user_id, ws, leaked,
                    unacked, http_script, http_out, devices, api_out >>

\* Lines 194-197 and 205-207: login answers.
LoginDone(t) ==
    /\ CanRun(t)
    /\ task[t].pc = "login"
    /\ \E r \in LoginAnswers :
         LET o == Login(SendHttp(ConstScript(r)), user_id, api_key) IN
         /\ user_id' = o.user_id
         /\ api_key' = o.api_key
         /\ IF o.how = "raise"
            THEN SetTask(t, ConnectReturn(task[t], "raise", "creds"))
            ELSE IF o.ret
                 THEN SetTask(t, [task[t] EXCEPT !.pc = "create"])
                 ELSE SetTask(t, ConnectReturn(task[t], "false", "creds"))
    /\ UNCHANGED << socket_state, sent_counter, ws, leaked, unacked,
                    http_script, http_out, devices, api_out >>

\* The socket self.ws named until now stays alive when its thread runs.
Leak(old) ==
    IF old.status \in LiveStatus
    THEN leaked (+) SetToBag({old})
    ELSE leaked

\* CreateSocketUpTo with the thread started as soon as the socket exists,
\* before any frame is sent.
CreateSocketStarted(t, cap) ==
    /\ CanRun(t)
    /\ task[t].pc = "create"
    /\ ws.status \in LiveStatus => LeakedCount < cap
    /\ leaked' = Leak(ws)
    /\ ws' = [status |-> "connecting", frames |-> << >>]
    /\ SetTask(t, [task[t] EXCEPT !.pc = "auth"])
    /\ UNCHANGED << socket_state, sent_counter, api_key, user_id, unacked,
                    http_script, http_out, devices, api_out >>

\* Lines 212-223: self.ws = websocket.WebSocketApp(...). The socket named
\* until now is neither closed nor joined. (cap bounds the model: no more
\* than cap leaked sockets.)
CreateSocketUpTo(t, cap) ==
    /\ CanRun(t)
    /\ task[t].pc = "create"
    /\ ws.status \in LiveStatus => LeakedCount < cap
    /\ leaked' = Leak(ws)
    /\ ws' = [status |-> "created", frames |-> << >>]
    /\ SetTask(t, [task[t] EXCEPT !.pc = "auth"])
    /\ UNCHANGED << socket_state, sent_counter, api_key, user_id, unacked,
                    http_script, http_out, devices, api_out >>

CreateSocket(t) == CreateSocketUpTo(t, MaxLeaked)

\* What a step of the try block (lines 211-242) can end in: it goes through,
\* raises a websocket.WebSocketException, or raises something else.
SetupOutcomes == {"ok", "ws_exc", "exc"}

\* Lines 239-242 for "ws_exc"; any other exception leaves open_wss_thread and
\* connect_wss.
SetupFailed(t, out) ==
    /\ socket_state' = IF out = "ws_exc" THEN SOCK_ERROR ELSE socket_state
    /\ SetTask(t, ConnectReturn(task[t],
                                IF out = "ws_exc" THEN "false" ELSE "raise",
                                "setup"))

\* One frame sent on self.ws before its thread exists.
SendFrame(t, frame, next) ==
    \E out \in SetupOutcomes :
        IF out = "ok"
        THEN /\ ws' = [ws EXCEPT !.frames = Append(@, frame)]
             /\ SetTask(t, [task[t] EXCEPT !.pc = next])
             /\ UNCHANGED socket_state
        ELSE /\ SetupFailed(t, out)
             /\ UNCHANGED ws

\* Line 225: self.authenticate().
Authenticate(t) ==
    /\ CanRun(t)
    /\ task[t].pc = "auth"
    /\ SendFrame(t, "auth", "sub")
    /\ UNCHANGED << sent_counter, api_key, user_id, leaked, unacked,
                    http_script, http_out, devices, api_out >>

\* Line 227: self.subscribe().
Subscribe(t) ==
    /\ CanRun(t)
    /\ task[t].pc = "sub"
    /\ SendFrame(t, "sub", "start")
    /\ UNCHANGED << sent_counter, api_key, user_id, leaked, unacked,
                    http_script, http_out, devices, api_out >>

\* Lines 229-230: the thread running self.ws.run_forever is started.
StartThread(t) ==
    /\ CanRun(t)
    /\ task[t].pc = "start"
    /\ ws' = [ws EXCEPT !.status = "connecting"]
    /\ SetTask(t, [task[t] EXCEPT !.pc = "alive"])
    /\ UNCHANGED << socket_state, sent_counter, api_key, user_id, leaked,
                    unacked, http_script, http_out, devices, api_out >>

\* Lines 232-237 and 251-254: is_alive().
IsAlive(t) ==
    /\ CanRun(t)
    /\ task[t].pc = "alive"
    /\ IF ws.status \in LiveStatus
       THEN SetTask(t, [task[t] EXCEPT !.pc = "poll", !.i = 0])
       ELSE SetTask(t, ConnectReturn(task[t], "false", "thread"))
    /\ UNCHANGED << socket_state, sent_counter, api_key, user_id, ws, leaked,
                    unacked, http_script, http_out, devices, api_out >>

\* Lines 256-261: one turn of the poll loop (check, then sleep), or its end.
Poll(t) ==
    /\ CanRun(t)
    /\ task[t].pc = "poll"
    /\ IF task[t].i >= CONNECT_POLLS
       THEN SetTask(t, ConnectReturn(task[t], "false", "timeout"))
       ELSE IF socket_state = SOCK_CONNECTED
            THEN SetTask(t, ConnectReturn(task[t], "true", "opened"))
            ELSE SetTask(t, [task[t] EXCEPT !.i = @ + 1])
    /\ UNCHANGED << socket_state, sent_counter, api_key, user_id, ws, leaked,
                    unacked, http_script, http_out, devices, api_out >>

\* ------------------------------------------------------------------------
\* Caller side: publish_wss (lines 299-337)
\* ------------------------------------------------------------------------

\* self.ws.close(): a socket whose thread is connecting or open is closed
\* and its thread goes on to the teardown.
Closed(sock) ==
    IF sock.status \in {"connecting", "open"}
    THEN [sock EXCEPT !.status = "closing"]
    ELSE sock

\* History kept for a publish call made while the state is Connected: that
\* fact and the value of the counter at the call.
StartOfPublish ==
    IF socket_state = SOCK_CONNECTED
    THEN [IdleTask EXCEPT !.op = "publish", !.conn0 = TRUE,
                          !.cnt0 = sent_counter]
    ELSE [IdleTask EXCEPT !.op = "publish"]

\* DeadLink with the comparison off by one.
DeadLinkLate(counter) == counter > DEAD_LINK_SENDS

\* Line 306: the link counts as dead.
DeadLink(counter) == counter >= DEAD_LINK_SENDS

\* Lines 303-312: the call starts; a dead link is closed first.
PublishWss(t) ==
    /\ CanRun(t)
    /\ task[t].pc \in {"idle", "done"}
    /\ LET tk == StartOfPublish
       IN  IF DeadLink(sent_counter)
           THEN IF ws.status = "none"
                THEN /\ sent_counter' = 0          \* self.ws is None: line 311 raises
                     /\ unacked' = 0
                     /\ SetTask(t, [tk EXCEPT !.pc = "done", !.ret = "raise"])
                     /\ UNCHANGED << ws, socket_state >>
                ELSE /\ sent_counter' = 0
                     /\ unacked' = 0
                     /\ ws' = Closed(ws)
                     /\ socket_state' = SOCK_CLOSE
                     /\ SetTask(t, [tk EXCEPT !.pc = "loop"])
           ELSE /\ SetTask(t, [tk EXCEPT !.pc = "loop"])
                /\ UNCHANGED << sent_counter, unacked, ws, socket_state >>
    /\ UNCHANGED << api_key, user_id, leaked, http_script, http_out, devices, api_out >>

\* Lines 314-315 and 327-337: the head of one attempt.
PublishLoop(t) ==
    /\ CanRun(t)
    /\ task[t].pc = "loop"
    /\ IF task[t].attempt >= N_RETRY
       THEN SetTask(t, [task[t] EXCEPT !.pc = "done", !.ret = "false",
                                       !.attempt = 0])
       ELSE IF socket_state = SOCK_CONNECTED
            THEN SetTask(t, [task[t] EXCEPT !.pc = "send"])
            ELSE SetTask(t, [task[t] EXCEPT !.pc = "connect"])
    /\ UNCHANGED << socket_state, sent_counter, api_key, user_id, ws, leaked,
                    unacked, http_script, http_out, devices, api_out >>

\* What self.ws.send can end in: the frame is accepted, the library raises
\* WebSocketConnectionClosedException, or the transport raises something else.
\* A socket that is not open accepts nothing.
SendOutcomes(sock) ==
    IF sock.status = "open" THEN {"ok", "closed_exc", "exc"} ELSE {"closed_exc"}

\* PublishSend where a connection-closed error neither sets the state nor
\* uses up an attempt.
PublishSendStay(t) ==
    /\ CanRun(t)
    /\ task[t].pc = "send"
    /\ \E out \in SendOutcomes(ws) :
         CASE out = "ok" ->
                /\ unacked' = unacked + 1
                /\ SetTask(t, [task[t] EXCEPT !.pc = "inc"])
           [] out = "closed_exc" ->
                /\ SetTask(t, [task[t] EXCEPT !.pc = "loop"])
                /\ UNCHANGED unacked
           [] out = "exc" ->
                /\ SetTask(t, [task[t] EXCEPT !.pc = "done", !.ret = "raise",
                                              !.attempt = 0])
                /\ UNCHANGED unacked
    /\ UNCHANGED << socket_state, sent_counter, api_key, user_id, ws, leaked,
                    http_script, http_out, devices, api_out >>

\* Lines 316-317 and 321-326: self.ws.send(json_message).
PublishSend(t) ==
    /\ CanRun(t)
    /\ task[t].pc = "send"
    /\ \E out \in SendOutcomes(ws) :
         CASE out = "ok" ->
                /\ unacked' = unacked + 1
                /\ SetTask(t, [task[t] EXCEPT !.pc = "inc"])
                /\ UNCHANGED socket_state
           [] out = "closed_exc" ->
                /\ socket_state' = SOCK_CLOSE
                /\ SetTask(t, [task[t] EXCEPT !.pc = "loop",
                                              !.attempt = @ + 1])
                /\ UNCHANGED unacked
           [] out = "exc" ->
                /\ SetTask(t, [task[t] EXCEPT !.pc = "done", !.ret = "raise",
                                              !.attempt = 0])
                /\ UNCHANGED << socket_state, unacked >>
    /\ UNCHANGED << sent_counter, api_key, user_id, ws, leaked, http_script,
                    http_out, devices, api_out >>

\* PublishCount counting the send twice.
PublishCountTwice(t) ==
    /\ CanRun(t)
    /\ task[t].pc = "inc"
    /\ sent_counter' = sent_counter + 2
    /\ SetTask(t, [task[t] EXCEPT !.pc = "done", !.ret = "true",
                                  !.attempt = 0])
    /\ UNCHANGED << socket_state, api_key, user_id, ws, leaked, unacked,
                    http_script, http_out, devices, api_out >>

\* Lines 318-320: self.sent_counter += 1; return True.
PublishCount(t) ==
    /\ CanRun(t)
    /\ task[t].pc = "inc"
    /\ sent_counter' = sent_counter + 1
    /\ SetTask(t, [task[t] EXCEPT !.pc = "done", !.ret = "true",
                                  !.attempt = 0])
    /\ UNCHANGED << socket_state, api_key, user_id, ws, leaked, unacked,
                    http_script, http_out, devices, api_out >>

\* ------------------------------------------------------------------------
\* Socket callbacks, run by the thread of a socket (lines 263-297)
\* ------------------------------------------------------------------------

\* A socket of the controller goes from one status to another: the one
\* self.ws names, or a leaked one. A dead socket has no thread left.
Move(from, to) ==
    \/ /\ ws.status = from
       /\ ws' = [ws EXCEPT !.status = to]
       /\ UNCHANGED leaked
    \/ /\ \E s \in LeakedSockets :
            /\ s.status = from
            /\ leaked' = IF to = "dead"
                         THEN leaked (-) SetToBag({s})
                         ELSE (leaked (-) SetToBag({s}))
                              (+) SetToBag({[s EXCEPT !.status = to]})
       /\ UNCHANGED ws

\* Lines 286-289.
OnOpen ==
    /\ Move("connecting", "open")
    /\ socket_state' = SOCK_CONNECTED
    /\ UNCHANGED << sent_counter, api_key, user_id, task, unacked,
                    http_script, http_out, devices, api_out >>

\* Lines 263-269.
OnError ==
    /\ \E from \in {"connecting", "open"} : Move(from, "closing")
    /\ socket_state' = SOCK_ERROR
    /\ UNCHANGED << sent_counter, api_key, user_id, task, unacked,
                    http_script, http_out, devices, api_out >>

\* Lines 271-280; the thread ends after it.
OnClose ==
    /\ \E from \in {"open", "closing"} : Move(from, "dead")
    /\ socket_state' = SOCK_CLOSE
    /\ UNCHANGED << sent_counter, api_key, user_id, task, unacked,
                    http_script, http_out, devices, api_out >>

\* Lines 291-297.
OnMessage ==
    /\ ws.status = "open" \/ \E s \in LeakedSockets : s.status = "open"
    /\ sent_counter' = 0
    /\ unacked' = 0
    /\ task' = [t \in Tasks |->
                  IF InCall(t) THEN [task[t] EXCEPT !.msg = TRUE] ELSE task[t]]
    /\ UNCHANGED << socket_state, api_key, user_id, ws, leaked, http_script,
                    http_out, devices, api_out >>

\* ------------------------------------------------------------------------
\* The controller with one caller
\* ------------------------------------------------------------------------
\* The controller is built with the credentials of an earlier login or
\* with none (lines 173-185, gdodevice.py lines 28-33).
Credentials == { [api_key |-> None, user_id |-> None],
                 [api_key |-> "k1", user_id |-> "u1"] }

Init ==
    /\ socket_state = SOCK_CLOSE
    /\ sent_counter = 0
    /\ \E c \in Credentials : api_key = c.api_key /\ user_id = c.user_id
    /\ ws = NoSocket
    /\ leaked = NoLeak
    /\ task = [t \in Tasks |-> IF t = 1 THEN IdleTask
                                        ELSE [IdleTask EXCEPT !.pc = "absent"]]
    /\ unacked = 0
    /\ http_script = ConstScript(HttpAnswer(200, NotJson))
    /\ http_out = NoCall
    /\ devices = << >>
    /\ api_out = NoApiCall

Next ==
    \/ \E t \in Tasks : ConnectWss(t)
    \/ \E t \in Tasks : CheckCredentials(t)
    \/ \E t \in Tasks : LoginDone(t)
    \/ \E t \in Tasks : CreateSocket(t)
    \/ \E t \in Tasks : Authenticate(t)
    \/ \E t \in Tasks : Subscribe(t)
    \/ \E t \in Tasks : StartThread(t)
    \/ \E t \in Tasks : IsAlive(t)
    \/ \E t \in Tasks : Poll(t)
    \/ \E t \in Tasks : PublishWss(t)
    \/ \E t \in Tasks : PublishLoop(t)
    \/ \E t \in Tasks : PublishSend(t)
    \/ \E t \in Tasks : PublishCount(t)
    \/ OnOpen
    \/ OnError
    \/ OnClose
    \/ OnMessage

Spec == Init /\ [][Next]_vars

\* ------------------------------------------------------------------------
\* Properties of the controller
\* ------------------------------------------------------------------------
AllSockets == {ws} \cup LeakedSockets
Handshake == << "auth", "sub" >>

\* C1: at most one socket with a running thread at any time.
C1_AtMostOneLiveThread == LiveThreads <= 1

\* connect_wss returns true in this step: at line 247 or at line 259.
ConnectReturnsTrue(t) ==
    \/ ConnectWss(t) /\ socket_state = SOCK_CONNECTED
    \/ Poll(t) /\ task[t].i < CONNECT_POLLS /\ socket_state = SOCK_CONNECTED

C3_DeadLinkClosedFirst ==
    [][\A t \in Tasks :
        (PublishWss(t) /\ unacked >= DEAD_LINK_SENDS) =>
            /\ sent_counter' = 0
            /\ socket_state' = SOCK_CLOSE
            /\ ws'.status \notin {"connecting", "open"}
            /\ task'[t].pc = "loop" /\ task'[t].attempt = 0]_vars

\* C3 witness: the sixth publish on an open socket has just closed it.
C3_Witness ==
    /\ task[1].op = "publish" /\ task[1].pc = "loop" /\ task[1].attempt = 0
    /\ task[1].conn0 /\ task[1].cnt0 = DEAD_LINK_SENDS /\ ~task[1].msg
    /\ sent_counter = 0 /\ socket_state = SOCK_CLOSE /\ ws.status = "closing"

\* C4 as stated: for every value of the counter at the call, a publish
\* called in state Connected whose send is accepted leaves the counter one
\* higher than at the call (read for calls during which no inbound message
\* resets the counter).
C4_Original ==
    [][\A t \in Tasks :
        (PublishCount(t) /\ task[t].conn0 /\ ~task[t].msg) =>
            sent_counter' = task[t].cnt0 + 1]_vars

\* C4 amended: the same for a counter below 5 at the call, when no inbound
\* message is handled between the call and its return.
C4_CounterPlusOne ==
    [][\A t \in Tasks :
        (PublishCount(t) /\ task[t].conn0 /\ ~task[t].msg
           /\ task[t].cnt0 < DEAD_LINK_SENDS) =>
            /\ sent_counter' = task[t].cnt0 + 1
            /\ task'[t].ret = "true"]_vars

\* C4 witness: a publish called at counter 3 returned true at counter 4.
C4_Witness ==
    /\ task[1].op = "publish" /\ task[1].pc = "done" /\ task[1].ret = "true"
    /\ task[1].conn0 /\ ~task[1].msg /\ task[1].cnt0 = 3
    /\ sent_counter = 4

\* C5: the counter counts only the sends accepted since the last inbound
\* message (or dead-link reset).
C5_CounterCountsSendsAfterMessage == sent_counter <= unacked

\* C6: connect_wss entered in state Connected returns true at once and
\* changes nothing: no login, no socket, no thread, same state and counter.
C6_ConnectWhenConnectedIsNoOp ==
    [][\A t \in Tasks :
        (ConnectWss(t) /\ socket_state = SOCK_CONNECTED) =>
            /\ task'[t].pc \in {"done", "loop"}
            /\ task'[t].pc = "done" => task'[t].ret = "true"
            /\ UNCHANGED << socket_state, sent_counter, api_key, user_id, ws,
                            leaked >>]_vars

\* C6 witness: a direct connect found the state Connected and returned true.
C6_Witness ==
    /\ task[1].op = "connect" /\ task[1].pc = "done"
    /\ task[1].ret = "true" /\ task[1].why = "already"

\* connect_wss ends in this step on a poll timeout or a setup exception.
ConnectFails(t) ==
    \/ Poll(t) /\ task[t].i >= CONNECT_POLLS
    \/ Authenticate(t) /\ task'[t].pc # "sub"
    \/ Subscribe(t) /\ task'[t].pc # "start"

\* C7: when connect_wss ends on a timeout or a setup exception it returns
\* false (nothing is raised), the state is Error and no thread of the
\* controller's socket is left running.
C7_FailedConnectLeavesError ==
    [][\A t \in Tasks :
        ConnectFails(t) =>
            /\ socket_state' = SOCK_ERROR
            /\ ws'.status \notin LiveStatus
            /\ task'[t].ret # "raise"]_vars

\* An upper bound of the steps a publish call at this position still takes
\* before the attempt it is in ends.
StepsLeft(tk) ==
    CASE tk.pc = "inc" -> 1
      [] tk.pc = "send" -> 2
      [] tk.pc = "poll" -> CONNECT_POLLS + 1 - tk.i
      [] tk.pc = "alive" -> CONNECT_POLLS + 2
      [] tk.pc = "start" -> CONNECT_POLLS + 3
      [] tk.pc = "sub" -> CONNECT_POLLS + 4
      [] tk.pc = "auth" -> CONNECT_POLLS + 5
      [] tk.pc = "create" -> CONNECT_POLLS + 6
      [] tk.pc = "login" -> CONNECT_POLLS + 7
      [] tk.pc = "creds" -> CONNECT_POLLS + 8
      [] tk.pc = "connect" -> CONNECT_POLLS + 9
      [] tk.pc = "loop" -> CONNECT_POLLS + 10
      [] OTHER -> 0

\* An upper bound of the steps a publish call still takes before it ends.
PublishMeasure(tk) ==
    IF tk.pc \in {"idle", "done", "absent"}
    THEN 0
    ELSE (N_RETRY - tk.attempt) * (CONNECT_POLLS + 11) + StepsLeft(tk)

\* The caller t, inside publish_wss, takes a step.
PublishStep(t) ==
    /\ task[t].op = "publish" /\ InCall(t)
    /\ << task'[t].pc, task'[t].attempt, task'[t].i >>
           # << task[t].pc, task[t].attempt, task[t].i >>

\* C16: publish_wss ends within N_RETRY turns of its loop (every step of
\* the call lowers a bound on the steps left; the turn count never exceeds
\* N_RETRY); a turn is one send or one connect; an accepted send is followed
\* by the return of true and by no other send; false is returned only after
\* N_RETRY turns; a connection-closed error of the send sets the state to
\* Closed and the loop goes to its next turn.
C16_PublishTerminates ==
    /\ [](\A t \in Tasks : task[t].attempt <= N_RETRY)
    /\ [][\A t \in Tasks :
            PublishStep(t) =>
                /\ PublishMeasure(task'[t]) < PublishMeasure(task[t])
                /\ task[t].pc = "loop" /\ task[t].attempt < N_RETRY =>
                       task'[t].pc \in {"send", "connect"}
                /\ task[t].pc = "send" /\ unacked' # unacked =>
                       task'[t].pc = "inc"
                /\ task[t].pc = "inc" =>
                       task'[t].pc = "done" /\ task'[t].ret = "true"
                /\ task'[t].pc = "done" /\ task'[t].ret = "false" =>
                       task[t].pc = "loop" /\ task[t].attempt = N_RETRY
                /\ task[t].pc = "send" /\ task'[t].pc = "loop" =>
                       /\ socket_state' = SOCK_CLOSE
                       /\ task'[t].attempt = task[t].attempt + 1]_vars

\* C16 witness: a publish is about to return false: N_RETRY turns have
\* passed, the last of them a send that met a closed connection.
C16_Witness ==
    /\ task[1].op = "publish" /\ task[1].pc = "loop"
    /\ task[1].attempt = N_RETRY
    /\ task[1].conn0
    /\ socket_state = SOCK_CLOSE /\ ws.status = "open"

\* C17: publish_wss never returns false with the state Connected: a connect
\* made by the loop that succeeds is followed by a send.
C17_ConnectFollowedBySend ==
    [][\A t \in Tasks :
        (PublishLoop(t) /\ task[t].attempt >= N_RETRY) =>
            socket_state # SOCK_CONNECTED]_vars

\* The connection states of the stated machine; the program has constants
\* for three of them (lines 12-14) and none for Connecting.
ConnectionStates == {SOCK_CLOSE, "Connecting", SOCK_CONNECTED, SOCK_ERROR}

\* C18: the state is always one of Closed, Connecting, Connected, Error,
\* and every step into Connected starts in Connecting.
C18_ConnectedOnlyFromConnecting ==
    /\ [](socket_state \in ConnectionStates)
    /\ [][(socket_state' = SOCK_CONNECTED /\ socket_state # SOCK_CONNECTED) =>
            socket_state = "Connecting"]_vars

\* C19: the state is Connected only while the socket created last is open,
\* and an on_close or on_error of an earlier socket, arriving while the
\* socket that replaced it is open, leaves the state alone.
C19_StateReflectsCurrentSocket ==
    /\ [](socket_state = SOCK_CONNECTED => ws.status = "open")
    /\ [][((OnClose \/ OnError) /\ ws.status = "open" /\ UNCHANGED ws) =>
            UNCHANGED socket_state]_vars

\* ------------------------------------------------------------------------
\* Recovery: one publish on a controller whose connection was lost, with
\* credentials held, a server that accepts every new connection and keeps
\* it, and a transport that accepts every send. The sockets of earlier
\* connects still deliver their callbacks.
\* ------------------------------------------------------------------------
Copies(n, sock) == [x \in {sock} |-> n]

\* The states the publish starts in: the last socket has reported an error
\* (its on_close is still to come) or was closed, and up to MaxLeaked sockets
\* of connects that timed out are still connecting.
InitRecover ==
    /\ \E st \in {"closing", "dead"} :
         /\ ws = [status |-> st, frames |-> Handshake]
         /\ socket_state = IF st = "closing" THEN SOCK_ERROR ELSE SOCK_CLOSE
    /\ \E n \in 0 .. MaxLeaked :
         leaked = IF n = 0 THEN EmptyBag
                  ELSE Copies(n, [status |-> "connecting", frames |-> Handshake])
    /\ sent_counter = 0
    /\ api_key = "k1"
    /\ user_id = "u1"
    /\ task = [t \in Tasks |-> IF t = 1 THEN IdleTask
                                        ELSE [IdleTask EXCEPT !.pc = "absent"]]
    /\ unacked = 0
    /\ http_script = ConstScript(HttpAnswer(200, NotJson))
    /\ http_out = NoCall
    /\ devices = << >>
    /\ api_out = NoApiCall

OpenLeaked == { s \in LeakedSockets : s.status = "open" }
OpenLeakedCount == BagCardinality([s \in OpenLeaked |-> leaked[s]])

\* on_open of the socket the call has just created.
AcceptedOnOpen == OnOpen /\ ws.status = "connecting" /\ ws'.status = "open"

\* on_error of a socket of an earlier connect that never opened.
StaleOnError == OnError /\ UNCHANGED ws /\ OpenLeakedCount' = OpenLeakedCount

\* on_close of a socket of an earlier connect.
StaleOnClose ==
    /\ OnClose
    /\ ws.status = "open" => UNCHANGED ws
    /\ OpenLeakedCount' = OpenLeakedCount

NextRecover ==
    \/ \E t \in Tasks : task[t].pc = "idle" /\ PublishWss(t)
    \/ \E t \in Tasks : PublishLoop(t)
    \/ \E t \in Tasks : task[t].pc = "connect" /\ ConnectWss(t)
    \/ \E t \in Tasks : CheckCredentials(t)
    \/ \E t \in Tasks : CreateSocketUpTo(t, MaxLeakedRecover)
    \/ \E t \in Tasks : Authenticate(t) /\ task'[t].pc = "sub"
    \/ \E t \in Tasks : Subscribe(t) /\ task'[t].pc = "start"
    \/ \E t \in Tasks : StartThread(t)
    \/ \E t \in Tasks : IsAlive(t)
    \/ \E t \in Tasks : Poll(t) /\ task[t].i < CONNECT_POLLS
    \/ \E t \in Tasks : PublishSend(t) /\ task'[t].pc = "inc"
    \/ \E t \in Tasks : PublishCount(t)
    \/ AcceptedOnOpen
    \/ StaleOnError
    \/ StaleOnClose

SpecRecover == InitRecover /\ [][NextRecover]_vars

\* C8: the publish reconnects, sends and returns true.
C8_PublishRecovers ==
    \A t \in Tasks :
        (task[t].op = "publish" /\ task[t].pc = "done") => task[t].ret = "true"

\* The states InitRecover starts in are states of the controller.
RecoverStart ==
    /\ task[1].pc = "done"
    /\ socket_state = SOCK_ERROR
    /\ ws = [status |-> "closing", frames |-> Handshake]
    /\ leaked = Copies(MaxLeaked, [status |-> "connecting", frames |-> Handshake])
    /\ sent_counter = 0
    /\ api_key = "k1" /\ user_id = "u1"

\* ------------------------------------------------------------------------
\* send_http on its own: one call against every script of server answers
\* ------------------------------------------------------------------------
HttpAnswers ==
    { HttpAnswer(200, JsonBody("result" :> << >>)),
      HttpAnswer(200, NotJson),
      HttpAnswer(401, NotJson),
      HttpAnswer(500, NotJson),
      HttpAnswer(503, NotJson),
      HttpNetError("timeout"),
      HttpNetError("connect") }

HttpScripts == [1 .. N_RETRY -> HttpAnswers]

InitHttp ==
    /\ socket_state = SOCK_CLOSE
    /\ sent_counter = 0
    /\ api_key = None
    /\ user_id = None
    /\ ws = NoSocket
    /\ leaked = NoLeak
    /\ task = [t \in Tasks |-> [IdleTask EXCEPT !.pc = "absent"]]
    /\ unacked = 0
    /\ http_script \in HttpScripts
    /\ http_out = NoCall
    /\ devices = << >>
    /\ api_out = NoApiCall

SendHttpCall ==
    /\ http_out = NoCall
    /\ http_out' = SendHttp(http_script)
    /\ UNCHANGED << socket_state, sent_counter, api_key, user_id, ws, leaked,
                    task, unacked, http_script, devices, api_out >>

NextHttp == SendHttpCall

SpecHttp == InitHttp /\ [][NextHttp]_vars

\* An answer after which the loop of send_http goes on.
Retried(r) == r.kind = "request_error" \/ r.status \notin {200, 401}

\* The k-th request is the first one answered 200 or 401.
FirstFinal(k) ==
    /\ ~Retried(http_script[k])
    /\ \A j \in 1 .. k - 1 : Retried(http_script[j])

HttpCalled == http_out # NoCall

\* C9: a 401 ends send_http at once: when the k-th request is the first one
\* answered 200 or 401 and its answer is a 401, send_http returns the 401
\* result and has sent exactly k requests (none after the 401).
C9_Http401NotRetried ==
    HttpCalled =>
        \A k \in 1 .. N_RETRY :
            (FirstFinal(k) /\ http_script[k].status = 401) =>
                http_out = Returned(Http401Result, k)

\* C9 witness: a 401 on the third request, after a 500 and a timeout.
C9_Witness ==
    /\ HttpCalled
    /\ http_script[1] = HttpAnswer(500, NotJson)
    /\ http_script[2] = HttpNetError("timeout")
    /\ http_script[3].status = 401
    /\ http_out.attempts = 3

\* C10: when every request meets a status other than 200 and 401 or a
\* network error, exactly N_RETRY requests are sent and the generic failure
\* result, which differs from the 401 result, is returned; a 200 on the k-th
\* request ends the call after exactly k requests, with the parsed body when
\* the body parses.
C10_HttpRetriesExactly ==
    HttpCalled =>
        /\ (\A k \in 1 .. N_RETRY : Retried(http_script[k])) =>
               /\ http_out = Returned(HttpFailedResult, N_RETRY)
               /\ http_out.value # Http401Result
        /\ \A k \in 1 .. N_RETRY :
               (FirstFinal(k) /\ http_script[k].status = 200) =>
                   /\ http_out.attempts = k
                   /\ http_script[k].body.valid =>
                          http_out = Returned(http_script[k].body.data, k)

\* C10 witness: a mix of 500, 503 and network errors uses up all requests.
C10_Witness ==
    /\ HttpCalled
    /\ \A k \in 1 .. N_RETRY : Retried(http_script[k])
    /\ \E k \in 1 .. N_RETRY : http_script[k].kind = "request_error"
    /\ \E k \in 1 .. N_RETRY : http_script[k].status = 503
    /\ http_out.attempts = N_RETRY

\* ------------------------------------------------------------------------
\* The account client on its own: login and get_devices, each against the
\* answers of the server to its requests
\* ------------------------------------------------------------------------
MaxDevices == 2     \* descriptors held in self.devices, at most

\* One item of the result list of the device request.
DeviceItem(d) ==
    [deviceTypeIds |-> << "gdo" >>, varName |-> d,
     metaData |-> [name |-> d, version |-> 1, description |-> d,
                   sys |-> [lastSeen |-> 0]]]

DeviceIds == {"d1", "d2"}

\* Bodies the login request can be answered with: the identifier and the
\* key as the server sends them ("apiKey"), with the key also under
\* "apikey", under "apikey" only, or with parts missing.
ApiLoginBodies ==
    { LoginBody(u, "apiKey" :> "k1") : u \in {"u1", "u2"} }
    \cup { LoginBody(u, ("apiKey" :> "k1") @@ ("apikey" :> "k1")) :
              u \in {"u1", "u2"} }
    \cup { LoginBody("u1", "apikey" :> "k1"),
           LoginBody("u1", << >>),
           JsonBody("result" :> ("_id" :> "u1")),
           JsonBody("result" :> ("auth" :> ("apiKey" :> "k1"))),
           JsonBody("result" :> << >>),
           NotJson }

\* Bodies the device request can be answered with: a result list, or an
\* empty object.
ApiDeviceBodies ==
    { JsonBody("result" :> << >>), JsonBody(<< >>), NotJson }
    \cup { JsonBody("result" :> << DeviceItem(d) >>) : d \in DeviceIds }
    \cup { JsonBody("result" :> << DeviceItem("d1"), DeviceItem("d2") >>) }

Failures == { HttpAnswer(401, NotJson), HttpAnswer(500, NotJson),
              HttpNetError("timeout") }

\* The server answers every request alike, or the first one with a 500.
ApiScripts(bodies) ==
    LET answers == { HttpAnswer(200, b) : b \in bodies } \cup Failures
    IN  { ConstScript(r) : r \in answers }
        \cup { [k \in 1 .. N_RETRY |->
                  IF k = 1 THEN HttpAnswer(500, NotJson) ELSE r] : r \in answers }

InitApi ==
    /\ socket_state = SOCK_CLOSE
    /\ sent_counter = 0
    /\ api_key = None
    /\ user_id = None
    /\ ws = NoSocket
    /\ leaked = NoLeak
    /\ task = [t \in Tasks |-> [IdleTask EXCEPT !.pc = "absent"]]
    /\ unacked = 0
    /\ http_script = ConstScript(HttpAnswer(200, NotJson))
    /\ http_out = NoCall
    /\ devices = << >>
    /\ api_out = NoApiCall

ApiCall(op, o, how, ret, list) ==
    [op |-> op, resp |-> o, how |-> how, ret |-> ret, list |-> list,
     uid0 |-> user_id, key0 |-> api_key, devs0 |-> devices]

\* One call of login() (lines 48-81).
LoginCall ==
    /\ \E script \in ApiScripts(ApiLoginBodies) :
         LET o == SendHttp(script)
             r == Login(o, user_id, api_key)
         IN  /\ user_id' = r.user_id
             /\ api_key' = r.api_key
             /\ api_out' = ApiCall("login", o, r.how, r.ret, << >>)
    /\ UNCHANGED << socket_state, sent_counter, ws, leaked, task, unacked,
                    http_script, http_out, devices >>

\* One call of get_devices() (lines 83-120).
GetDevicesCall ==
    /\ \E script \in ApiScripts(ApiDeviceBodies) :
         LET o == SendHttp(script)
             r == GetDevices(o, devices, api_key, user_id)
         IN  /\ Len(r.devices) <= MaxDevices
             /\ devices' = r.devices
             /\ api_out' = ApiCall("get_devices", o, r.how, FALSE, r.list)
    /\ UNCHANGED << socket_state, sent_counter, api_key, user_id, ws, leaked,
                    task, unacked, http_script, http_out >>

NextApi ==
    \/ LoginCall
    \/ GetDevicesCall

SpecApi == InitApi /\ [][NextApi]_vars

\* ------------------------------------------------------------------------
\* Properties of the account client
\* ------------------------------------------------------------------------

\* The last call was `op` and its send_http returned a parsed response.
Answered(op) == api_out.op = op /\ api_out.resp.how = "return"

\* The response carries result._id and result.auth.apiKey.
HasIdAndKey(resp) ==
    /\ HasKey(resp, "result")
    /\ HasKey(resp["result"], "_id")
    /\ HasKey(resp["result"], "auth")
    /\ HasKey(resp["result"]["auth"], "apiKey")

\* The response is one of the two error results of send_http (lines 143-146
\* and 164).
IsHttpError(resp) == HasKey(resp, "msg") /\ HasKey(resp, "details")

\* C11: a login answered with result._id = u and result.auth.apiKey = k
\* returns true and leaves user_id = u and api_key = k.
C11_LoginStoresCredentials ==
    (Answered("login") /\ HasIdAndKey(api_out.resp.value)) =>
        /\ api_out.how = "return" /\ api_out.ret
        /\ user_id = api_out.resp.value["result"]["_id"]
        /\ api_key = api_out.resp.value["result"]["auth"]["apiKey"]

\* C12: a login answered with a result lacking _id or lacking auth.apiKey
\* returns false and leaves user_id and api_key as they were before the call.
C12_FailedLoginKeepsCredentials ==
    (/\ Answered("login")
     /\ HasKey(api_out.resp.value, "result")
     /\ ~HasIdAndKey(api_out.resp.value)) =>
        /\ api_out.how = "return" /\ ~api_out.ret
        /\ user_id = api_out.uid0
        /\ api_key = api_out.key0

\* C13: a login whose send_http gave the 401 result or the retries-exhausted
\* result returns false and raises nothing.
C13_LoginNeverRaises ==
    (Answered("login") /\ IsHttpError(api_out.resp.value)) =>
        api_out.how = "return" /\ ~api_out.ret

\* C14: get_devices returns an empty list and raises nothing when the
\* response is empty or send_http gave one of its two error results.
C14_NoDevicesOnFailure ==
    (/\ Answered("get_devices")
     /\ ~Truthy(api_out.resp.value) \/ IsHttpError(api_out.resp.value)) =>
        api_out.how = "return" /\ api_out.list = << >>

\* C15: get_devices returns exactly one descriptor per item of the result
\* list of this call's response, in order, whatever earlier calls returned.
C15_GetDevicesIdempotent ==
    (Answered("get_devices") /\ HasKey(api_out.resp.value, "result")) =>
        /\ api_out.how = "return"
        /\ api_out.list =
               Descriptors(api_out.resp.value["result"], api_key, user_id)

\* ------------------------------------------------------------------------
\* Two callers of one controller: one publish_wss call each, overlapping at
\* the awaits of connect_wss. The calls are made after the server closed the
\* connection on which up to four messages had been sent without a reply;
\* the controller holds its credentials, the setup of a socket goes through
\* and the server accepts the new connections and may answer.
\* ------------------------------------------------------------------------
InitOverlap ==
    /\ socket_state = SOCK_CLOSE
    /\ \E n \in 0 .. DEAD_LINK_SENDS - 1 : sent_counter = n /\ unacked = n
    /\ api_key = "k1"
    /\ user_id = "u1"
    /\ ws = [status |-> "dead", frames |-> Handshake]
    /\ leaked = NoLeak
    /\ task = [t \in Tasks |-> IdleTask]
    /\ http_script = ConstScript(HttpAnswer(200, NotJson))
    /\ http_out = NoCall
    /\ devices = << >>
    /\ api_out = NoApiCall

NextOverlap ==
    \/ \E t \in Tasks : task[t].pc = "idle" /\ PublishWss(t)
    \/ \E t \in Tasks : PublishLoop(t)
    \/ \E t \in Tasks : task[t].pc = "connect" /\ ConnectWss(t)
    \/ \E t \in Tasks : CheckCredentials(t)
    \/ \E t \in Tasks : CreateSocket(t)
    \/ \E t \in Tasks : Authenticate(t) /\ task'[t].pc = "sub"
    \/ \E t \in Tasks : Subscribe(t) /\ task'[t].pc = "start"
    \/ \E t \in Tasks : StartThread(t)
    \/ \E t \in Tasks : IsAlive(t)
    \/ \E t \in Tasks : Poll(t)
    \/ \E t \in Tasks : PublishSend(t) /\ task'[t].ret # "raise"
    \/ \E t \in Tasks : PublishCount(t)
    \/ OnOpen
    \/ OnMessage

SpecOverlap == InitOverlap /\ [][NextOverlap]_vars

\* C20: the counter stays between 0 and the dead-link threshold.
C20_CounterWithinThreshold ==
    sent_counter >= 0 /\ sent_counter <= DEAD_LINK_SENDS

\* The states InitOverlap starts in are states of the controller.
OverlapStart ==
    /\ task[1].pc = "done"
    /\ socket_state = SOCK_CLOSE
    /\ ws = [status |-> "dead", frames |-> Handshake]
    /\ leaked = NoLeak
    /\ sent_counter = DEAD_LINK_SENDS - 1 /\ unacked = sent_counter
    /\ api_key = "k1" /\ user_id = "u1"

====
